---- MODULE Spec2Model ----
(***************************************************************************)
(* Model of src/app.py ("My Routine OS"): a Streamlit page that keeps two  *)
(* worksheets, Tasks and Travel, in a Google spreadsheet and an in-memory  *)
(* snapshot of both in the session state.                                  *)
(*                                                                         *)
(* Values and their text                                                   *)
(*   a calendar day is an integer; day 0 is a Monday                       *)
(*   a Python date / datetime object is [type, day]                        *)
(*   the text str() gives for it is [day, tod]: tod = "" for a date and    *)
(*   the time-of-day part for a datetime ("2024-01-10" against             *)
(*   "2024-01-10 13:05:22.123456")                                         *)
(*   a time object is [hh, mm, ss]; its "%H:%M" text is [hh, mm]           *)
(*   names, categories, locations, priorities, statuses, notes are strings *)
(* Task names are words: never empty, numeric, or shaped like a date or a  *)
(* time, so a name is only ever compared with the word-valued cells.       *)
(***************************************************************************)
EXTENDS Integers, Sequences, FiniteSets, TLC

VARIABLES
    tasks,      \* data rows of worksheet "Tasks", in sheet order (header excluded)
    travel,     \* data rows of worksheet "Travel", in sheet order
    df,         \* st.session_state.df: snapshot of Tasks
    df_travel,  \* st.session_state.df_travel: snapshot of Travel
    today,      \* the day datetime.today() falls on
    pandas2,    \* the installed pandas parses a column with one format (>= 2.0)
    last        \* the last call or handler run: its arguments and its outcome

vars == <<tasks, travel, df, df_travel, today, pandas2, last>>

-----------------------------------------------------------------------------
(* Bounds of the model *)

MaxRows == 3        \* the form is submitted while Tasks holds fewer rows than this
MaxTrips == 2       \* trips logged
MaxToday == 6       \* days on which a schedule expansion is tried: 0..MaxToday
MaxWeeks == 2       \* weeks_to_plan tried in direct calls: 0..MaxWeeks
MaxFailAt == 3      \* the storage API may raise at its 1st..MaxFailAt-th call

(* Program constants *)

DefaultWeeks == 4   \* weeks_to_plan=4
DateCol == 4        \* ws.cell(cell.row, 4)
StatusCol == 8      \* ws.update_cell(cell.row, 8, ...)

WeekDays == <<"Monday", "Tuesday", "Wednesday", "Thursday", "Friday", "Saturday", "Sunday">>

expected_cols == <<"Task", "Category", "Location", "Date", "StartTime", "Duration", "Priority", "Status", "Notes">>

travel_cols == <<"Date", "From", "To", "DistanceKM", "Mode">>

\* columns of Tasks whose cells hold words (the others hold a date, a time, a number)
WordCols == {1, 2, 3, 7, 8, 9}

-----------------------------------------------------------------------------
(* Python values and conversions *)

DateObj(d) == [type |-> "date", day |-> d]

DateTimeObj(d) == [type |-> "datetime", day |-> d]

TimeObj(h, m) == [hh |-> h, mm |-> m, ss |-> 0]

\* str(x) of a date or a datetime
Str(x) == IF x.type = "date" THEN [day |-> x.day, tod |-> ""]
          ELSE [day |-> x.day, tod |-> "hh:mm:ss.ffffff"]

\* start_t.strftime("%H:%M")
StrfHM(t) == [hh |-> t.hh, mm |-> t.mm]

\* current_date.strftime("%A")
DayName(d) == WeekDays[(d % 7) + 1]

\* pd.to_datetime(text).date() of one cell
ParseDate(text) == text.day

\* "HH:MM" texts compare as strings: hours first, then minutes
TimeTextLess(a, b) == a.hh < b.hh \/ (a.hh = b.hh /\ a.mm < b.mm)

-----------------------------------------------------------------------------
(* Storage: append, load *)

\* the row written for an entry: dates and datetimes become their text
RowValues(entry) == [entry EXCEPT !.Date = Str(@)]

save_entry(ws_rows, entry_dict) == Append(ws_rows, RowValues(entry_dict))

bulk_save_entries(ws_rows, list_of_dicts) ==
    ws_rows \o [i \in 1..Len(list_of_dicts) |-> RowValues(list_of_dicts[i])]

IsBlank(text) == text.tod = "blank"

\* pd.to_datetime over a column: pandas >= 2.0 takes the format of the first
\* element and raises on an element of another format
ParseRaises(rows) ==
    /\ pandas2
    /\ \E i \in 1..Len(rows) : rows[i].Date.tod # rows[1].Date.tod

EmptyFrame(cols) == [columns |-> cols, rows |-> <<>>]

\* load_data(worksheet_name) over the records the worksheet holds; ok is FALSE
\* when opening or reading the worksheet raises
load_data(worksheet_name, records, ok) ==
    IF ~ok THEN EmptyFrame(expected_cols)
    ELSE IF records = <<>>
         THEN EmptyFrame(IF worksheet_name = "Tasks" THEN expected_cols ELSE <<>>)
    ELSE LET kept == SelectSeq(records, LAMBDA r : ~IsBlank(r.Date))
         IN  IF ParseRaises(kept) THEN EmptyFrame(expected_cols)
             ELSE [columns |-> IF worksheet_name = "Tasks" THEN expected_cols ELSE travel_cols,
                   rows |-> [i \in 1..Len(kept) |->
                               [kept[i] EXCEPT !.Date = DateObj(ParseDate(@))]]]

-----------------------------------------------------------------------------
(* Storage: search, update, delete *)

\* the cells of one row whose value is the query, left to right
RowCells(row, i, query) ==
    LET hit(c) == c \in WordCols /\ row[expected_cols[c]] = query
    IN  SelectSeq([c \in 1..Len(expected_cols) |-> [row |-> i, col |-> c]],
                  LAMBDA cell : hit(cell.col))

RECURSIVE findallFrom(_, _, _)
findallFrom(rows, query, i) ==
    IF i > Len(rows) THEN <<>>
    ELSE RowCells(rows[i], i, query) \o findallFrom(rows, query, i + 1)

\* ws.findall(query): every cell of the sheet equal to the query, row by row.
\* The header row is left out: its Date cell reads "Date", which no date's text
\* equals, so neither caller ever acts on it.
findall(rows, query) == findallFrom(rows, query, 1)

\* variant: the loop leaves at the first row it updates
RECURSIVE UpdateCellsFirstOnly(_, _, _, _, _, _, _)
UpdateCellsFirstOnly(rows, cell_list, k, date_text, new_status, calls, failAt) ==
    IF k > Len(cell_list) THEN [rows |-> rows, warned |-> FALSE]
    ELSE IF failAt = calls + 1 THEN [rows |-> rows, warned |-> TRUE]
    ELSE LET r == cell_list[k].row
         IN  IF rows[r][expected_cols[DateCol]] = date_text
             THEN IF failAt = calls + 2 THEN [rows |-> rows, warned |-> TRUE]
                  ELSE [rows |-> [rows EXCEPT ![r][expected_cols[StatusCol]] = new_status],
                        warned |-> FALSE]
             ELSE UpdateCellsFirstOnly(rows, cell_list, k + 1, date_text, new_status,
                                       calls + 1, failAt)

\* the loop of update_status_in_sheet from the k-th found cell on; calls counts
\* the API calls made so far inside the try, the failAt-th of which raises
RECURSIVE UpdateCells(_, _, _, _, _, _, _)
UpdateCells(rows, cell_list, k, date_text, new_status, calls, failAt) ==
    IF k > Len(cell_list) THEN [rows |-> rows, warned |-> FALSE]
    ELSE IF failAt = calls + 1 THEN [rows |-> rows, warned |-> TRUE]
    ELSE LET r == cell_list[k].row
         IN  IF rows[r][expected_cols[DateCol]] = date_text
             THEN IF failAt = calls + 2 THEN [rows |-> rows, warned |-> TRUE]
                  ELSE UpdateCells([rows EXCEPT ![r][expected_cols[StatusCol]] = new_status],
                                   cell_list, k + 1, date_text, new_status, calls + 2, failAt)
             ELSE UpdateCells(rows, cell_list, k + 1, date_text, new_status, calls + 1, failAt)

\* update_status_in_sheet(task_name, date_str, new_status); failAt = 0: no call raises
update_status_in_sheet(rows, task_name, date_str, new_status, failAt) ==
    IF failAt = 1 THEN [rows |-> rows, warned |-> TRUE]
    ELSE UpdateCells(rows, findall(rows, task_name), 1, Str(date_str), new_status, 1, failAt)

RemoveAt(rows, i) == SubSeq(rows, 1, i - 1) \o SubSeq(rows, i + 1, Len(rows))

\* variant: the row is recognised by its date alone
RECURSIVE DeleteCellsAnyTime(_, _, _, _, _)
DeleteCellsAnyTime(rows, cell_list, k, date_text, time_text) ==
    IF k > Len(cell_list) THEN [rows |-> rows, ret |-> FALSE, row_num |-> 0]
    ELSE LET row_num == cell_list[k].row
         IN  IF rows[row_num].Date = date_text
             THEN [rows |-> RemoveAt(rows, row_num), ret |-> TRUE, row_num |-> row_num]
             ELSE DeleteCellsAnyTime(rows, cell_list, k + 1, date_text, time_text)

\* variant: the loop falls through to "return True"
RECURSIVE DeleteCellsNeverFalse(_, _, _, _, _)
DeleteCellsNeverFalse(rows, cell_list, k, date_text, time_text) ==
    IF k > Len(cell_list) THEN [rows |-> rows, ret |-> TRUE, row_num |-> 0]
    ELSE LET row_num == cell_list[k].row
         IN  IF rows[row_num].Date = date_text /\ rows[row_num].StartTime = time_text
             THEN [rows |-> RemoveAt(rows, row_num), ret |-> TRUE, row_num |-> row_num]
             ELSE DeleteCellsNeverFalse(rows, cell_list, k + 1, date_text, time_text)

RECURSIVE DeleteCells(_, _, _, _, _)
DeleteCells(rows, cell_list, k, date_text, time_text) ==
    IF k > Len(cell_list) THEN [rows |-> rows, ret |-> FALSE, row_num |-> 0]
    ELSE LET row_num == cell_list[k].row
             sheet_date == rows[row_num].Date
             sheet_time == rows[row_num].StartTime
         IN  IF sheet_date = date_text /\ sheet_time = time_text
             THEN [rows |-> RemoveAt(rows, row_num), ret |-> TRUE, row_num |-> row_num]
             ELSE DeleteCells(rows, cell_list, k + 1, date_text, time_text)

\* delete_task_from_sheet(task_name, date_obj, time_str): the rows afterwards, the
\* value returned and the number of the row deleted (0: none)
delete_task_from_sheet(rows, task_name, date_obj, time_str) ==
    DeleteCells(rows, findall(rows, task_name), 1, Str(date_obj), time_str)

-----------------------------------------------------------------------------
(* Schedule expansion *)

\* the entry built for one date from the request
NewEntry(req, date_value) ==
    [Task |-> req.task, Category |-> req.cat, Location |-> req.loc,
     Date |-> date_value, StartTime |-> StrfHM(req.start_t), Duration |-> req.dur,
     Priority |-> req.priority, Status |-> "Pending", Notes |-> req.notes]

\* variant: the day offsets run over 1..n instead of 0..n-1
new_entries_from_tomorrow(day0, req, days_selected, weeks_to_plan) ==
    LET offsets == [k \in 1..(weeks_to_plan * 7) |-> k]
        chosen == SelectSeq(offsets, LAMBDA i : DayName(day0 + i) \in days_selected)
    IN  [k \in 1..Len(chosen) |-> NewEntry(req, DateObj(day0 + chosen[k]))]

\* variant: the loop also visits the day that ends the horizon
new_entries_to_horizon_end(day0, req, days_selected, weeks_to_plan) ==
    LET offsets == [k \in 1..(weeks_to_plan * 7 + 1) |-> k - 1]
        chosen == SelectSeq(offsets, LAMBDA i : DayName(day0 + i) \in days_selected)
    IN  [k \in 1..Len(chosen) |-> NewEntry(req, DateObj(day0 + chosen[k]))]

\* new_entries of add_recurring_schedule
new_entries(day0, req, days_selected, weeks_to_plan) ==
    LET offsets == [k \in 1..(weeks_to_plan * 7) |-> k - 1]
        chosen == SelectSeq(offsets, LAMBDA i : DayName(day0 + i) \in days_selected)
    IN  [k \in 1..Len(chosen) |-> NewEntry(req, DateObj(day0 + chosen[k]))]

\* variant: the batch is saved even when it is empty
add_recurring_schedule_unguarded(rows, day0, req, days_selected, weeks_to_plan) ==
    LET entries == new_entries(day0, req, days_selected, weeks_to_plan)
    IN  [rows |-> bulk_save_entries(rows, entries), count |-> Len(entries), wrote |-> TRUE]

\* add_recurring_schedule: the rows of Tasks afterwards, the count returned and
\* whether bulk_save_entries was called
add_recurring_schedule(rows, day0, req, days_selected, weeks_to_plan) ==
    LET entries == new_entries(day0, req, days_selected, weeks_to_plan)
    IN  IF entries # <<>>
        THEN [rows |-> bulk_save_entries(rows, entries), count |-> Len(entries), wrote |-> TRUE]
        ELSE [rows |-> rows, count |-> 0, wrote |-> FALSE]

-----------------------------------------------------------------------------
(* Inputs *)

\* what is typed into routine_form with the toggle off, and with it on
OneTimeRequests ==
    [task : {"Gym", "Study"}, cat : {"Study"}, loc : {"Home"}, start_t : {TimeObj(8, 15)},
     dur : {60}, priority : {"Medium"}, notes : {""}]

RecurringRequests ==
    [task : {"Gym"}, cat : {"Personal"}, loc : {"Campus"}, start_t : {TimeObj(18, 0)},
     dur : {90}, priority : {"High"}, notes : {"weekly"}]

FormDaySets == SUBSET {"Monday"}

PickedDates == {today}

\* the dates chosen in "View Schedule For:" and "Select Date to Edit:"
ViewDates == {today, today + 7}

Distances == {30}   \* tenths of a kilometre

\* requests of direct calls to add_recurring_schedule: every field takes two values
CallRequests ==
    {[task |-> "Gym", cat |-> "Personal", loc |-> "Home", start_t |-> TimeObj(8, 15),
      dur |-> 60, priority |-> "Medium", notes |-> ""],
     [task |-> "Study", cat |-> "Study", loc |-> "Library", start_t |-> TimeObj(18, 0),
      dur |-> 45, priority |-> "High", notes |-> "bring notes"]}

NoReq == [task |-> "", cat |-> "", loc |-> "", start_t |-> TimeObj(0, 0),
          dur |-> 0, priority |-> "", notes |-> ""]

NoDate == [type |-> "none", day |-> 0]

\* what is recorded of a call or handler run
Idle == [op |-> "start", name |-> "", date |-> NoDate, time |-> StrfHM(TimeObj(0, 0)),
         ret |-> FALSE, count |-> 0, wrote |-> FALSE, warned |-> FALSE, msg |-> "",
         recurring |-> FALSE, req |-> NoReq, days |-> {}, weeks |-> 0,
         index |-> 0, row_num |-> 0, ok |-> TRUE]

-----------------------------------------------------------------------------
(* The page *)

\* variant: data_loaded is left set, nothing is loaded
RerunKeepsSnapshot(newTasks, newTravel) == UNCHANGED <<df, df_travel>>

\* lines 159-166 after data_loaded was deleted: both snapshots are loaded anew
Rerun(newTasks, newTravel) ==
    /\ df' = load_data("Tasks", newTasks, TRUE)
    /\ df_travel' = load_data("Travel", newTravel, TRUE)

Init ==
    /\ tasks = <<>>
    /\ travel = <<>>
    /\ today = 0
    /\ pandas2 \in BOOLEAN
    /\ df = load_data("Tasks", tasks, TRUE)
    /\ df_travel = load_data("Travel", travel, TRUE)
    /\ last = Idle

\* "Add to Schedule" of routine_form
SubmitForm(is_recurring, req, days_checked, picked) ==
    LET days == IF is_recurring THEN days_checked ELSE {}
        specific_date == IF is_recurring THEN DateTimeObj(today) ELSE DateObj(picked)
        rec == add_recurring_schedule(tasks, today, req, days, DefaultWeeks)
    IN  /\ Len(tasks) < MaxRows
        /\ req.task # ""
        /\ IF is_recurring /\ days # {}
           THEN /\ tasks' = rec.rows
                /\ last' = [Idle EXCEPT !.op = "submit", !.recurring = is_recurring,
                              !.req = req, !.days = days, !.weeks = DefaultWeeks,
                              !.count = rec.count, !.wrote = rec.wrote,
                              !.msg = "Added recurring tasks!"]
           ELSE /\ tasks' = save_entry(tasks, NewEntry(req, specific_date))
                /\ last' = [Idle EXCEPT !.op = "submit", !.recurring = is_recurring,
                              !.req = req, !.days = days, !.date = specific_date,
                              !.count = 1, !.wrote = TRUE, !.msg = "Task Added!"]
        /\ Rerun(tasks', travel)
        /\ UNCHANGED <<travel, today, pandas2>>

\* variant: the button is drawn for every row
FinishOfferedAlways(row) == row.Status \in {"Pending", "Done"}

\* line 313: the Finish button is drawn for this row
FinishOffered(row) == row.Status # "Done"

\* "Finish" next to the i-th row of the snapshot in the agenda of selected_date
FinishButton(selected_date, i, failAt) ==
    /\ i \in 1..Len(df.rows)
    /\ df.rows[i].Date = DateObj(selected_date)
    /\ FinishOffered(df.rows[i])
    /\ LET row == df.rows[i]
           upd == update_status_in_sheet(tasks, row.Task, row.Date, "Done", failAt)
       IN  /\ tasks' = upd.rows
           /\ last' = [Idle EXCEPT !.op = "finish", !.name = row.Task, !.date = row.Date,
                         !.time = row.StartTime, !.index = i, !.warned = upd.warned]
    /\ Rerun(tasks', travel)
    /\ UNCHANGED <<travel, today, pandas2>>

\* variant: the trip is written over the sheet's last record
LogTripOverwrites(t_km) ==
    /\ Len(travel) < MaxTrips
    /\ travel' = save_entry(SubSeq(travel, 1, Len(travel) - 1),
                            [Date |-> DateObj(today), From |-> "Home",
                             To |-> "Campus", DistanceKM |-> t_km,
                             Mode |-> "Commute"])
    /\ last' = [Idle EXCEPT !.op = "trip", !.wrote = TRUE]
    /\ Rerun(tasks, travel')
    /\ UNCHANGED <<tasks, today, pandas2>>

\* "Log Trip" of travel_form
LogTrip(t_km) ==
    /\ Len(travel) < MaxTrips
    /\ travel' = save_entry(travel, [Date |-> DateObj(today), From |-> "Home",
                                     To |-> "Campus", DistanceKM |-> t_km,
                                     Mode |-> "Commute"])
    /\ last' = [Idle EXCEPT !.op = "trip", !.wrote = TRUE]
    /\ Rerun(tasks, travel')
    /\ UNCHANGED <<tasks, today, pandas2>>

\* "Delete" next to the i-th row of the snapshot in the list of manage_date
DeleteButton(manage_date, i) ==
    /\ i \in 1..Len(df.rows)
    /\ df.rows[i].Date = DateObj(manage_date)
    /\ LET row == df.rows[i]
           del == delete_task_from_sheet(tasks, row.Task, row.Date, row.StartTime)
       IN  /\ tasks' = del.rows
           /\ last' = [Idle EXCEPT !.op = "delete", !.name = row.Task, !.date = row.Date,
                         !.time = row.StartTime, !.index = i, !.ret = del.ret,
                         !.row_num = del.row_num,
                         !.msg = IF del.ret THEN "Deleted!"
                                 ELSE "Could not find task in sheet."]
           /\ IF del.ret THEN Rerun(tasks', travel) ELSE UNCHANGED <<df, df_travel>>
    /\ UNCHANGED <<travel, today, pandas2>>

Next ==
    \/ \E is_recurring \in BOOLEAN :
         \E req \in (IF is_recurring THEN RecurringRequests ELSE OneTimeRequests),
            days_checked \in (IF is_recurring THEN FormDaySets ELSE {{}}),
            picked \in PickedDates :
              SubmitForm(is_recurring, req, days_checked, picked)
    \/ \E selected_date \in ViewDates, i \in 1..Len(df.rows), failAt \in 0..MaxFailAt :
         FinishButton(selected_date, i, failAt)
    \/ \E t_km \in Distances : LogTrip(t_km)
    \/ \E manage_date \in ViewDates, i \in 1..Len(df.rows) : DeleteButton(manage_date, i)

Spec == Init /\ [][Next]_vars

-----------------------------------------------------------------------------
(* What the page shows of the snapshots *)

\* the index labels of a frame's rows, in frame order
Labels(frame) == [i \in 1..Len(frame.rows) |-> i]

\* one label put into labels already ordered by StartTime, behind its equals
InsertByStartTime(frame, labels, i) ==
    LET before == SelectSeq(labels, LAMBDA j : ~TimeTextLess(frame.rows[i].StartTime,
                                                             frame.rows[j].StartTime))
        after == SelectSeq(labels, LAMBDA j : TimeTextLess(frame.rows[i].StartTime,
                                                           frame.rows[j].StartTime))
    IN  before \o <<i>> \o after

\* variant: the rows stay in frame order
sort_values_keeps_order(frame, labels) == labels

\* .sort_values(by="StartTime") of the rows with these labels; the frames of
\* the model are short, for which the sort keeps equal times in frame order
RECURSIVE sort_values(_, _)
sort_values(frame, labels) ==
    IF labels = <<>> THEN <<>>
    ELSE InsertByStartTime(frame,
                           sort_values(frame, SubSeq(labels, 1, Len(labels) - 1)),
                           labels[Len(labels)])

\* line 240: df.empty
Empty(frame) == frame.rows = <<>> \/ frame.columns = <<>>

\* the agenda of the timeline tab, as labels of snapshot rows
daily_tasks(selected_date) ==
    IF ~Empty(df)
    THEN sort_values(df, SelectSeq(Labels(df), LAMBDA i : df.rows[i].Date = DateObj(selected_date)))
    ELSE <<>>

\* the list of the manage tab, as labels of snapshot rows
tasks_to_edit(manage_date) ==
    IF ~Empty(df)
    THEN sort_values(df, SelectSeq(Labels(df), LAMBDA i : df.rows[i].Date = DateObj(manage_date)))
    ELSE <<>>

\* variant: the priority is not looked at
tmrw_high_any_priority ==
    IF ~Empty(df)
    THEN sort_values(df, SelectSeq(Labels(df), LAMBDA i : df.rows[i].Date = DateObj(today + 1)))
    ELSE <<>>

\* the High priority rows of tomorrow, ordered by StartTime
tmrw_high ==
    IF ~Empty(df)
    THEN sort_values(df, SelectSeq(Labels(df),
                                   LAMBDA i : /\ df.rows[i].Date = DateObj(today + 1)
                                              /\ df.rows[i].Priority = "High"))
    ELSE <<>>

\* "Tomorrow's Highlight": the label of next_big, 0 when "No High Priority
\* tasks tomorrow!" is shown
next_big == IF tmrw_high # <<>> THEN tmrw_high[1] ELSE 0

RECURSIVE SumKM(_)
SumKM(rows) ==
    IF rows = <<>> THEN 0
    ELSE rows[1].DistanceKM + SumKM(SubSeq(rows, 2, Len(rows)))

\* variant: the rows of every date are summed
total_km_all_dates == IF ~Empty(df_travel) THEN SumKM(df_travel.rows) ELSE 0

\* "Distance Traveled Today", in tenths of a kilometre
total_km ==
    IF ~Empty(df_travel)
    THEN SumKM(SelectSeq(df_travel.rows, LAMBDA row : row.Date = DateObj(today)))
    ELSE 0

-----------------------------------------------------------------------------
(* One-time submissions at several times, priorities and dates *)

AgendaRequests ==
    [task : {"Gym"}, cat : {"Study"}, loc : {"Home"},
     start_t : {TimeObj(9, 0), TimeObj(14, 30), TimeObj(8, 15)},
     dur : {60}, priority : {"High", "Medium"}, notes : {""}]

AgendaDates == {today, today + 1}

NextAgenda ==
    \E req \in AgendaRequests, picked \in AgendaDates : SubmitForm(FALSE, req, {}, picked)

SpecAgenda == Init /\ [][NextAgenda]_vars

-----------------------------------------------------------------------------
(* Trips logged over several days *)

TripDistances == {30, 52, 100}   \* 3.0 km, 5.2 km, 10 km

\* midnight passes: datetime.today() moves on, the snapshots stay
NextDay ==
    /\ today < MaxToday
    /\ today' = today + 1
    /\ UNCHANGED <<tasks, travel, df, df_travel, pandas2, last>>

NextTrips ==
    \/ \E t_km \in TripDistances : LogTrip(t_km)
    \/ NextDay

SpecTrips == Init /\ [][NextTrips]_vars

-----------------------------------------------------------------------------
(* Direct calls of add_recurring_schedule on an empty Tasks sheet *)

InitExpand ==
    /\ tasks = <<>>
    /\ travel = <<>>
    /\ today \in 0..MaxToday
    /\ pandas2 \in BOOLEAN
    /\ df = load_data("Tasks", tasks, TRUE)
    /\ df_travel = load_data("Travel", travel, TRUE)
    /\ last = Idle

ExpandCall(req, days_selected, weeks_to_plan) ==
    LET rec == add_recurring_schedule(tasks, today, req, days_selected, weeks_to_plan)
    IN  /\ last.op = "start"
        /\ tasks' = rec.rows
        /\ last' = [Idle EXCEPT !.op = "expand", !.recurring = TRUE, !.req = req,
                      !.days = days_selected, !.weeks = weeks_to_plan,
                      !.count = rec.count, !.wrote = rec.wrote]
        /\ UNCHANGED <<travel, df, df_travel, today, pandas2>>

NextExpand ==
    \E req \in CallRequests, days_selected \in SUBSET {WeekDays[k] : k \in 1..7},
       weeks_to_plan \in 0..MaxWeeks :
         ExpandCall(req, days_selected, weeks_to_plan)

SpecExpand == InitExpand /\ [][NextExpand]_vars

-----------------------------------------------------------------------------
(* Direct calls of load_data on worksheets that hold rows written earlier *)

\* the rows a Tasks worksheet may hold after at most two one-time submissions
\* on day d, each made with the toggle off or on
StoredTasks(d) ==
    LET one == {RowValues(NewEntry(r, v)) :
                  r \in OneTimeRequests, v \in {DateObj(d), DateTimeObj(d)}}
    IN  {<<>>} \cup {<<a>> : a \in one} \cup {<<a, b>> : a \in one, b \in one}

StoredTravel(d) ==
    {<<>>} \cup {<<RowValues([Date |-> DateObj(d), From |-> "Home", To |-> "Campus",
                              DistanceKM |-> t_km, Mode |-> "Commute"])>> :
                   t_km \in Distances}

InitLoad ==
    /\ today \in 0..MaxToday
    /\ pandas2 \in BOOLEAN
    /\ tasks \in StoredTasks(today)
    /\ travel \in StoredTravel(today)
    /\ df = EmptyFrame(<<>>)           \* nothing is loaded yet
    /\ df_travel = EmptyFrame(<<>>)
    /\ last = Idle

\* one call of load_data(worksheet_name); ok is FALSE when a call made inside
\* its try raises
LoadCall(worksheet_name, ok) ==
    /\ last.op = "start"
    /\ IF worksheet_name = "Tasks"
       THEN df' = load_data("Tasks", tasks, ok) /\ UNCHANGED df_travel
       ELSE df_travel' = load_data("Travel", travel, ok) /\ UNCHANGED df
    /\ last' = [Idle EXCEPT !.op = "load", !.name = worksheet_name, !.ok = ok]
    /\ UNCHANGED <<tasks, travel, today, pandas2>>

NextLoad ==
    \E worksheet_name \in {"Tasks", "Travel"}, ok \in BOOLEAN :
        LoadCall(worksheet_name, ok)

SpecLoad == InitLoad /\ [][NextLoad]_vars

-----------------------------------------------------------------------------
(* Properties *)

\* the rows in which some cell holds the name: the rows a search for it finds
Found(rows, name) ==
    {i \in 1..Len(rows) : \E c \in WordCols : rows[i][expected_cols[c]] = name}

\* the rows found for the name whose Date and StartTime cells equal the key
Candidates(rows, name, date_text, time_text) ==
    {i \in Found(rows, name) : rows[i].Date = date_text /\ rows[i].StartTime = time_text}

\* the rows whose Task, Date and StartTime cells equal the key
Twins(rows, name, date_text, time_text) ==
    {i \in 1..Len(rows) : /\ rows[i].Task = name
                          /\ rows[i].Date = date_text
                          /\ rows[i].StartTime = time_text}

Least(S) == CHOOSE m \in S : \A n \in S : m <= n

\* rows with the m-th left out, the others in their order
Without(rows, m) == [j \in 1..(Len(rows) - 1) |-> IF j < m THEN rows[j] ELSE rows[j + 1]]

IsoDate(d) == [day |-> d, tod |-> ""]

\* C1: a call of add_recurring_schedule on day today with horizon 7 * weeks
\* appends exactly one record for each date d, today <= d < today + horizon,
\* whose weekday name is selected, and none for another date; every record is
\* Pending and carries the request's Task, Category, Location, StartTime,
\* Duration, Priority and Notes; the records are in ascending date order.
C1_ExpansionExact ==
    last.op = "expand" =>
        LET horizon == 7 * last.weeks
            wanted == {d \in today..(today + horizon - 1) : DayName(d) \in last.days}
        IN  /\ \A d \in wanted :
                 Cardinality({i \in 1..Len(tasks) : tasks[i].Date = IsoDate(d)}) = 1
            /\ \A i \in 1..Len(tasks) : \E d \in wanted : tasks[i].Date = IsoDate(d)
            /\ \A i \in 1..Len(tasks) :
                 /\ tasks[i].Status = "Pending"
                 /\ tasks[i].Task = last.req.task
                 /\ tasks[i].Category = last.req.cat
                 /\ tasks[i].Location = last.req.loc
                 /\ tasks[i].StartTime.hh = last.req.start_t.hh
                 /\ tasks[i].StartTime.mm = last.req.start_t.mm
                 /\ tasks[i].Duration = last.req.dur
                 /\ tasks[i].Priority = last.req.priority
                 /\ tasks[i].Notes = last.req.notes
            /\ \A i \in 1..Len(tasks), j \in 1..Len(tasks) :
                 i < j => tasks[i].Date.day < tasks[j].Date.day

\* an expansion begun midweek for two weekdays has produced several records
C1_Witness ==
    /\ last.op = "expand"
    /\ today = 3
    /\ last.days = {"Monday", "Thursday"}
    /\ last.weeks = 2
    /\ Len(tasks) = 4

\* C2: after a status update with key (name, date) in which no storage call
\* raised, every stored row whose Task is name and whose Date cell is the
\* text of date has the new Status, however many such rows there are.
C2_AllMatchesUpdated ==
    (last.op = "finish" /\ ~last.warned) =>
        \A i \in 1..Len(tasks) :
            (tasks[i].Task = last.name /\ tasks[i].Date = Str(last.date))
                => tasks[i].Status = "Done"

\* one update has reached two rows of the same name and date
C2_Witness ==
    /\ last.op = "finish"
    /\ ~last.warned
    /\ \E i \in 1..Len(tasks), j \in 1..Len(tasks) :
         /\ i < j
         /\ tasks[i].Task = last.name /\ tasks[j].Task = last.name
         /\ tasks[i].Date = Str(last.date) /\ tasks[j].Date = Str(last.date)
         /\ tasks[i].Status = "Done" /\ tasks[j].Status = "Done"

\* C3: a deletion with key (name, date, time) removes the first row, in sheet
\* order, among the rows found for the name whose Date and StartTime cells
\* equal the key, and returns True; when there is no such row it removes
\* nothing and returns False; the other rows keep their place and order.
C3_DeletesFirstCandidate ==
    [][last'.op = "delete" =>
         LET cand == Candidates(tasks, last'.name, Str(last'.date), last'.time)
         IN  IF cand = {}
             THEN tasks' = tasks /\ ~last'.ret
             ELSE tasks' = Without(tasks, Least(cand)) /\ last'.ret]_vars

\* a deletion has passed over an earlier row of the same name, which is still
\* there, and removed a later one
C3_Witness ==
    /\ last.op = "delete"
    /\ last.ret
    /\ last.row_num > 1
    /\ Len(tasks) >= 2
    /\ \E j \in 1..(last.row_num - 1) : tasks[j].Task = last.name

\* C4: when Tasks holds two rows identical in (Task, Date, StartTime), a
\* deletion with that key removes only the first of the two and returns True;
\* a second identical call removes the remaining one and returns True; a third
\* identical call returns False and removes nothing.
C4_TwinsGoOneByOne ==
    [][last'.op = "delete" =>
         LET twins == Twins(tasks, last'.name, Str(last'.date), last'.time)
             again == /\ last.op = "delete" /\ last.ret
                      /\ last.name = last'.name /\ last.date = last'.date
                      /\ last.time = last'.time
         IN  /\ Cardinality(twins) = 2
                  => (last'.ret /\ tasks' = Without(tasks, Least(twins)))
             /\ (again /\ Cardinality(twins) = 1)
                  => (last'.ret /\ tasks' = Without(tasks, Least(twins)))
             /\ (again /\ twins = {})
                  => (~last'.ret /\ tasks' = tasks)]_vars

\* C5: no step turns a stored row from Done back to Pending: a row that is
\* Done is Done after every step that keeps it, and a step that removes a row
\* leaves the others as they were; Finish is pressed only on a snapshot row
\* whose Status is not Done.
C5_DoneStaysDone ==
    [][/\ IF Len(tasks') < Len(tasks)
          THEN \E m \in 1..Len(tasks) : tasks' = Without(tasks, m)
          ELSE \A i \in 1..Len(tasks) :
                 tasks[i].Status = "Done" => tasks'[i].Status = "Done"
       /\ last'.op = "finish" => df.rows[last'.index].Status # "Done"]_vars

\* a Done row has lived through a later submission or deletion
C5_Witness ==
    /\ last.op \in {"submit", "delete"}
    /\ \E i \in 1..Len(tasks) : tasks[i].Status = "Done"

\* C6: whenever the page is at rest, both snapshots are what a load of the
\* stored rows returns: every write was followed by a reload before the next
\* read.
C6_SnapshotFresh ==
    /\ df = load_data("Tasks", tasks, TRUE)
    /\ df_travel = load_data("Travel", travel, TRUE)

\* after a status change and after a logged trip the snapshots hold the new rows
C6_Witness ==
    /\ last.op = "finish"
    /\ \E i \in 1..Len(df.rows) : df.rows[i].Status = "Done"
    /\ Len(df_travel.rows) = 1

\* C7: add_recurring_schedule with no weekday selected produces no record,
\* returns 0 and does not call the batch append.
C7_EmptySelectionWritesNothing ==
    (last.op = "expand" /\ last.days = {}) =>
        (tasks = <<>> /\ last.count = 0 /\ ~last.wrote)

\* an expansion over a non-empty horizon with no weekday selected
C7_Witness ==
    /\ last.op = "expand"
    /\ last.days = {}
    /\ last.weeks = 2

\* C8: when a deletion finds no row matching its key, it returns False, Tasks
\* is unchanged, and the caller reports the failure and keeps both snapshots.
C8_NotFoundLeavesAll ==
    [][(last'.op = "delete"
          /\ Candidates(tasks, last'.name, Str(last'.date), last'.time) = {}) =>
         /\ ~last'.ret
         /\ tasks' = tasks
         /\ df' = df /\ df_travel' = df_travel
         /\ last'.msg = "Could not find task in sheet."]_vars

\* a deletion pressed on a listed row has found nothing to delete
C8_Witness ==
    /\ last.op = "delete"
    /\ ~last.ret
    /\ last.msg = "Could not find task in sheet."
    /\ Len(tasks) >= 1
    /\ df.rows # <<>>

\* C9: when a status update finds no row matching its (name, date) key, no
\* row's Status changes and the caller is warned.
C9_NotFoundWarns ==
    [][(last'.op = "finish"
          /\ \A i \in Found(tasks, last'.name) : tasks[i].Date # Str(last'.date)) =>
         (tasks' = tasks /\ last'.warned)]_vars

\* C10: a status update with key (name, date) changes only the Status cell,
\* and only of rows whose Task is name and whose Date cell is the text of date.
C10_OnlyNamedRowsChange ==
    [][last'.op = "finish" =>
         /\ Len(tasks') = Len(tasks)
         /\ \A i \in 1..Len(tasks) :
              tasks'[i] # tasks[i] =>
                  /\ tasks[i].Task = last'.name
                  /\ tasks[i].Date = Str(last'.date)
                  /\ tasks'[i] = [tasks[i] EXCEPT !.Status = tasks'[i].Status]]_vars

\* C11: over every step the Travel rows before it are a prefix of the Travel
\* rows after it; Log Trip extends them by exactly one record; a form
\* submission, Finish and Delete leave them unchanged.
C11_TravelAppendOnly ==
    [][/\ Len(travel') >= Len(travel)
       /\ SubSeq(travel', 1, Len(travel)) = travel
       /\ last'.op = "trip" => Len(travel') = Len(travel) + 1
       /\ last'.op \in {"submit", "finish", "delete"} => travel' = travel]_vars

\* a second trip was logged after the first, and a task was finished since
C11_Witness ==
    /\ Len(travel) = 2
    /\ last.op = "finish"
    /\ \E i \in 1..Len(tasks) : tasks[i].Status = "Done"

\* the entries a form submission hands to save_entry or bulk_save_entries
Written(call) ==
    IF call.recurring /\ call.days # {}
    THEN new_entries(today, call.req, call.days, call.weeks)
    ELSE <<NewEntry(call.req, call.date)>>

\* a loaded record equals an entry in all nine fields, Date compared as text
SameFields(rec, entry) ==
    /\ Str(rec.Date) = Str(entry.Date)
    /\ rec.StartTime = entry.StartTime
    /\ \A c \in {1, 2, 3, 6, 7, 8, 9} : rec[expected_cols[c]] = entry[expected_cols[c]]

\* C12: after a form submission wrote entries with save_entry or
\* bulk_save_entries, the reloaded snapshot is the snapshot before it followed
\* by one record for each written entry, in the order written, each equal to
\* its entry in all nine fields, Date and StartTime compared as text.
C12_RoundTrip ==
    [][last'.op = "submit" =>
         LET written == Written(last')
             n == Len(df.rows)
         IN  /\ Len(df'.rows) = n + Len(written)
             /\ SubSeq(df'.rows, 1, n) = df.rows
             /\ \A k \in 1..Len(written) : SameFields(df'.rows[n + k], written[k])]_vars

\* C13: a call of load_data that fails, or that reads a worksheet holding no
\* record yet, returns no rows and the columns of the worksheet asked for:
\* the nine Tasks columns for Tasks, Date, From, To, DistanceKM, Mode for
\* Travel.
C13_LoadKeepsSchema ==
    last.op = "load" =>
        LET asked == last.name
            res == IF asked = "Tasks" THEN df ELSE df_travel
            records == IF asked = "Tasks" THEN tasks ELSE travel
        IN  (~last.ok \/ records = <<>>) =>
                /\ res.rows = <<>>
                /\ res.columns = (IF asked = "Tasks" THEN expected_cols ELSE travel_cols)

\* the labels of the snapshot rows of a date
OnDate(d) == {i \in 1..Len(df.rows) : df.rows[i].Date = DateObj(d)}

\* the rows with these labels are in ascending StartTime order
Ascending(labels) ==
    \A k \in 1..(Len(labels) - 1) :
        ~TimeTextLess(df.rows[labels[k + 1]].StartTime, df.rows[labels[k]].StartTime)

\* C14: the agenda of a date lists exactly the snapshot rows whose Date is
\* that date, each once, in ascending StartTime order; the manage list of the
\* date has the same rows in the same order.
C14_AgendaSorted ==
    \A d \in {today, today + 1, today + 2} :
        LET agenda == daily_tasks(d)
        IN  /\ {agenda[k] : k \in 1..Len(agenda)} = OnDate(d)
            /\ Len(agenda) = Cardinality(OnDate(d))
            /\ Ascending(agenda)
            /\ tasks_to_edit(d) = agenda

\* tasks entered at 09:00, 14:30 and 08:15 for today are listed as 08:15,
\* 09:00, 14:30
C14_Witness ==
    /\ Len(df.rows) = 3
    /\ \A i \in 1..3 : df.rows[i].Date = DateObj(today)
    /\ df.rows[1].StartTime = StrfHM(TimeObj(9, 0))
    /\ df.rows[2].StartTime = StrfHM(TimeObj(14, 30))
    /\ df.rows[3].StartTime = StrfHM(TimeObj(8, 15))
    /\ daily_tasks(today) = <<3, 1, 2>>
    /\ tasks_to_edit(today) = <<3, 1, 2>>

\* the labels of the snapshot rows of tomorrow whose Priority is High
HighTomorrow ==
    {i \in 1..Len(df.rows) : /\ df.rows[i].Date = DateObj(today + 1)
                             /\ df.rows[i].Priority = "High"}

\* C15: tomorrow's highlight is "none" when the snapshot holds no row with
\* Date = today + 1 and Priority = High; otherwise it is such a row, and no
\* such row starts earlier; a row of another date or priority is never shown.
C15_HighlightEarliestHigh ==
    IF HighTomorrow = {}
    THEN next_big = 0
    ELSE /\ next_big \in HighTomorrow
         /\ \A j \in HighTomorrow :
              ~TimeTextLess(df.rows[j].StartTime, df.rows[next_big].StartTime)

\* of two High tasks of tomorrow the later entered, earlier starting one is
\* shown, although a Medium task of tomorrow starts before it
C15_Witness ==
    /\ Len(df.rows) = 3
    /\ \A i \in 1..3 : df.rows[i].Date = DateObj(today + 1)
    /\ df.rows[1].Priority = "High" /\ df.rows[1].StartTime = StrfHM(TimeObj(14, 30))
    /\ df.rows[2].Priority = "Medium" /\ df.rows[2].StartTime = StrfHM(TimeObj(8, 15))
    /\ df.rows[3].Priority = "High" /\ df.rows[3].StartTime = StrfHM(TimeObj(9, 0))
    /\ next_big = 3

\* the sum of DistanceKM over the Travel snapshot rows with these labels
RECURSIVE KmOver(_)
KmOver(S) ==
    IF S = {} THEN 0
    ELSE LET i == CHOOSE x \in S : TRUE
         IN  df_travel.rows[i].DistanceKM + KmOver(S \ {i})

\* C16: today's travel total is the sum of DistanceKM over exactly the Travel
\* snapshot rows whose Date is today; rows of other dates add nothing; it is
\* 0 when there is no such row or the snapshot is empty.
C16_TotalOfToday ==
    LET todays == {i \in 1..Len(df_travel.rows) : df_travel.rows[i].Date = DateObj(today)}
    IN  /\ total_km = KmOver(todays)
        /\ todays = {} => total_km = 0

\* a trip of 10 km logged yesterday and one of 5.2 km logged today: 5.2 km
C16_Witness ==
    /\ Len(df_travel.rows) = 2
    /\ df_travel.rows[1].Date = DateObj(today - 1)
    /\ df_travel.rows[1].DistanceKM = 100
    /\ df_travel.rows[2].Date = DateObj(today)
    /\ df_travel.rows[2].DistanceKM = 52
    /\ total_km = 52

\* C17: the count add_recurring_schedule returns is the number of records it
\* appended to Tasks, and it is the number of selected weekdays times the
\* number of weeks of the horizon, whatever weekday today is: 4 for Monday
\* and Wednesday over 14 days.
C17_CountIsDaysTimesWeeks ==
    last.op = "expand" =>
        /\ last.count = Len(tasks)
        /\ last.count = Cardinality(last.days) * last.weeks
        /\ (last.days = {"Monday", "Wednesday"} /\ last.weeks = 2) => last.count = 4

\* Monday and Wednesday over 14 days, begun on a Wednesday: 4 records
C17_Witness ==
    /\ last.op = "expand"
    /\ today = 2
    /\ last.days = {"Monday", "Wednesday"}
    /\ last.weeks = 2
    /\ last.count = 4
    /\ Len(tasks) = 4
    /\ tasks[1].Date = IsoDate(2)

\* C18: a deletion with key (name, date, time) that removes a row removes a
\* row whose Task is name: a row that holds name only in another field is
\* never the row deleted, wherever it stands in the sheet.
C18_DeletesOnlyNamedTask ==
    [][(last'.op = "delete" /\ tasks' # tasks) =>
         \E m \in 1..Len(tasks) :
             /\ tasks' = Without(tasks, m)
             /\ tasks[m].Task = last'.name]_vars

\* C19: every row a form submission writes holds in its Date cell the text of
\* the date reloaded into the snapshot, the text Finish and Delete compare
\* with; so Finish pressed on a row of the agenda, when no storage call
\* raises, leaves that row Done in the reloaded snapshot, and Delete pressed on
\* a row of the manage list removes a row of that date and time and reports
\* success.
C19_DateTextIsComparedText ==
    [][/\ last'.op = "submit" =>
            /\ Len(df'.rows) = Len(tasks')
            /\ \A k \in (Len(tasks) + 1)..Len(tasks') :
                 tasks'[k].Date = Str(df'.rows[k].Date)
       /\ (last'.op = "finish" /\ ~last'.warned) =>
            /\ Len(df'.rows) = Len(df.rows)
            /\ df'.rows[last'.index].Status = "Done"
       /\ last'.op = "delete" =>
            /\ last'.ret
            /\ last'.msg = "Deleted!"
            /\ \E m \in 1..Len(tasks) :
                 /\ tasks' = Without(tasks, m)
                 /\ tasks[m].Date = Str(last'.date)
                 /\ tasks[m].StartTime = last'.time]_vars

\* C20: a form submission with the recurring toggle on and no weekday
\* checked leaves Tasks unchanged: neither a batch nor a single row is
\* written.
C20_NoWeekdayWritesNothing ==
    [][(last'.op = "submit" /\ last'.recurring /\ last'.days = {}) =>
         (tasks' = tasks /\ ~last'.wrote)]_vars

====
